---------------------------- MODULE Spec2Model ----------------------------
(***************************************************************************)
(* A model of the slotted energy-harvesting network simulator:             *)
(*   src/components.py  Node, Channel, Network, MultiThreadedNetwork       *)
(*   src/protocols.py   RandomAccessProtocol, OneToOneStableMatching,      *)
(*                      OneToManyStableMatching, OptimalSellingMechanism   *)
(*                                                                         *)
(* Numbers.  A node's energy is counted in halves: energy[n] = e stands    *)
(* for the real e/2.  A gain is counted in units of ln 2: gain k stands    *)
(* for the real k*ln 2, so that exp(-gain) is exactly 1/2^k.  A rational   *)
(* is a pair <<numerator, denominator>> with a positive denominator.       *)
(* Nodes and channels are named by their ids, 1, 2, ...; 0 stands for      *)
(* Python's None.                                                          *)
(***************************************************************************)
EXTENDS Integers, Sequences, FiniteSets, TLC

\* ------------------------------------------------------------------ bounds
\* the longest node list handed to a protocol
MaxNodes == 2
\* the longest channel list handed to a protocol
MaxChannels == 2
\* the largest max_matches_per_receiver of a OneToManyStableMatching
MaxCap == 2
\* the largest num_nodes of a Network
MaxPopulation == 1
\* the largest trial_length of simulate_rate
MaxTrial == 2

\* the energies of the matching problems, in halves: 0, 1/2, 1 (the support of
\* Node's default distribution, stats.uniform, is [0, 1])
Energies == {0, 1, 2}
\* gains of a (channel, node) pair, in units of ln 2
Gains == {0, 1}

Max2(a, b) == IF a >= b THEN a ELSE b

\* the objects that exist: one node more than the longest list, for the
\* specifications that pass a longer list
NodeIds == 1..Max2(MaxNodes + 1, MaxPopulation)
ChannelIds == 1..Max2(MaxChannels, MaxPopulation)
None == 0

VARIABLES
    numpy,        \* TRUE when the energies are numpy.float64 (as harvesting_slot,
                  \* components.py l.68-70, leaves them), FALSE when they are
                  \* Python numbers (as Node.__init__, l.9, or a direct caller
                  \* leaves them)
    energy,       \* Node.energy of every node, in halves
    gains,        \* Channel.gains of every channel: gains[c][n]
    has_message,  \* Node.has_message of every node
    protocol,     \* the protocol object: its class (kind) and its constructor
                  \* arguments (mode, max_matches_per_receiver; "" and 0 where
                  \* the class has none)
    nodes,        \* the node list passed to the protocol
    channels,     \* the channel list passed to the protocol
    pc,           \* where the running call stands
    loc,          \* the local variables of the running call
    matching,     \* the list of (node, channel) pairs the matching function returned
    exec,         \* the locals of Protocol.execute: success, the position k of
                  \* its for loop, and the last send_data call it made
    net,          \* the Network running simulate_rate: its fields, the
                  \* arguments and locals of simulate_rate, and where it stands
    executor      \* MultiThreadedNetwork.simulate: its arguments and locals,
                  \* the Network objects it built and the trials it submitted

vars == <<numpy, energy, gains, has_message, protocol, nodes, channels, pc,
          loc, matching, exec, net, executor>>

\* ----------------------------------------------------------------- helpers
\* no Network: the protocol or the node is called directly
NoNetwork == <<>>

\* no thread pool: Network.simulate_rate, a protocol or a node is called
\* directly
NoExecutor == <<>>

\* Protocol.execute before its loop: success = 0, at the first element, no
\* send_data call made yet
ExecStart == [success |-> 0, k |-> 1, last |-> <<>>]

Range(s) == {s[k] : k \in 1..Len(s)}

\* list.index(x): the first position of x
Index(s, x) == CHOOSE k \in 1..Len(s) : s[k] = x /\ \A j \in 1..(k - 1) : s[j] # x

\* the list 1, 2, ..., n
Upto(n) == [k \in 1..n |-> k]

RECURSIVE InsertSorted(_, _, _)
InsertSorted(s, x, key) ==
    IF s = <<>> THEN <<x>>
    ELSE IF key[x] < key[Head(s)] THEN <<x>> \o s
    ELSE <<Head(s)>> \o InsertSorted(Tail(s), x, key)

\* sorted(s, key=...): ascending by key, stable (equal keys keep the order of s)
RECURSIVE Sorted(_, _)
Sorted(s, key) ==
    IF s = <<>> THEN <<>>
    ELSE InsertSorted(Sorted(SubSeq(s, 1, Len(s) - 1), key), s[Len(s)], key)

\* ------------------------------------------------------- Node (l.6-30)
\* the energies of the send attempts, in halves: those above and 2, 4
SendEnergies == Energies \cup {4, 8}

\* the values random.uniform(0, 1) may return, in quarters: 0, 1/4, 1/2, 3/4
\* (the draw is below 1)
Draws == {0, 1, 2, 3}

\* 2^k
RECURSIVE Pow2(_)
Pow2(k) == IF k = 0 THEN 1 ELSE 2 * Pow2(k - 1)

\* l.24: min(1, energy * exp(-gain)), for an energy of e halves and a gain
\* of k ln 2: the rational e / (2 * 2^k), or 1 when that is 1 or more
probability_of_success(e, k) ==
    IF e >= 2 * Pow2(k) THEN <<1, 1>> ELSE <<e, 2 * Pow2(k)>>

\* the test with the draw allowed to equal the probability
Mut_DrawBelow(u, p) == u * p[2] <= 4 * p[1]

\* l.19: random.uniform(0, 1) < p, for a draw of u quarters
DrawBelow(u, p) == u * p[2] < 4 * p[1]

\* send_data without its guard of l.17
Mut_send_data(had, e, k, u) ==
    LET success == DrawBelow(u, probability_of_success(e, k))
    IN  [returned |-> success, has_message |-> ~success]

\* l.16-21: Node.send_data on a node whose has_message is had and whose
\* energy is e, with channel_gain k and the draw u: the value returned and
\* has_message after the call
send_data(had, e, k, u) ==
    IF ~had
    THEN [returned |-> FALSE, has_message |-> had]
    ELSE LET success == DrawBelow(u, probability_of_success(e, k))
         IN  [returned |-> success, has_message |-> ~success]

\* l.16-21: a call of send_data on node n; loc records the call
NodeSendData ==
    /\ pc = "node"
    /\ \E n \in 1..MaxNodes, k \in Gains, u \in Draws :
          LET out == send_data(has_message[n], energy[n], k, u)
          IN  /\ has_message' = [has_message EXCEPT ![n] = out.has_message]
              /\ loc' = [node |-> n, channel_gain |-> k, draw |-> u,
                         had_message |-> has_message[n],
                         energy |-> energy[n],
                         probability |-> probability_of_success(energy[n], k),
                         returned |-> out.returned]
    /\ UNCHANGED <<numpy, energy, gains, protocol, nodes, channels, pc, matching, exec, net, executor>>

\* l.13-14: harvest_energy draws a new energy
NodeHarvestEnergy ==
    /\ pc = "node"
    /\ \E n \in 1..MaxNodes, e \in SendEnergies :
          energy' = [energy EXCEPT ![n] = e]
    /\ UNCHANGED <<numpy, gains, has_message, protocol, nodes, channels, pc, loc, matching, exec, net, executor>>

\* nodes as the Network leaves them between two calls: any energy, with or
\* without a message
InitSend ==
    /\ numpy = TRUE
    /\ energy \in [NodeIds -> SendEnergies]
    /\ has_message \in [NodeIds -> BOOLEAN]
    /\ \A n \in NodeIds \ (1..MaxNodes) : energy[n] = 0 /\ ~has_message[n]
    /\ gains = [c \in ChannelIds |-> [n \in NodeIds |-> 0]]
    /\ protocol = [kind |-> "", mode |-> "", max_matches_per_receiver |-> 0]
    /\ nodes = <<>>
    /\ channels = <<>>
    /\ pc = "node"
    /\ loc = <<>>
    /\ matching = <<>>
    /\ exec = ExecStart
    /\ net = NoNetwork
    /\ executor = NoExecutor

NextSend == NodeSendData \/ NodeHarvestEnergy

\* the methods of Node, called in any order
SpecSend == InitSend /\ [][NextSend]_vars

\* ------------------------------------------------- preference construction
\* sorted(channels, key=lambda channel: channel.gains[node])
node_preferences(n) == Sorted(channels, [c \in Range(channels) |-> gains[c][n]])

\* the same with the sign of the key lost: lowest energy first
Mut_channel_preferences(c) == Sorted(nodes, [n \in Range(nodes) |-> energy[n]])

\* sorted(sending_nodes, key=lambda node: -node.energy)
channel_preferences(c) == Sorted(nodes, [n \in Range(nodes) |-> 0 - energy[n]])

\* ------------------------------------------ OneToOneStableMatching (l.19-74)
Modes == {"node", "channel", "other"}

proposers == IF protocol.mode = "node" THEN nodes ELSE channels
receivers == IF protocol.mode = "node" THEN channels ELSE nodes
proposer_preferences(p) ==
    IF protocol.mode = "node" THEN node_preferences(p) ELSE channel_preferences(p)
receiver_preferences(r) ==
    IF protocol.mode = "node" THEN channel_preferences(r) ELSE node_preferences(r)

\* does receiver r take proposer p, given the partners held now (l.50, l.57)
Accepts(r, p, partner) ==
    \/ partner[r] = None
    \/ Index(receiver_preferences(r), p) < Index(receiver_preferences(r), partner[r])

\* the receiver at which the inner for loop of proposer p breaks, or None (l.49-61)
RECURSIVE FirstAccepting(_, _, _)
FirstAccepting(prefs, p, partner) ==
    IF prefs = <<>> THEN None
    ELSE IF Accepts(Head(prefs), p, partner) THEN Head(prefs)
    ELSE FirstAccepting(Tail(prefs), p, partner)

\* the loop goes on while any proposer is free
Mut_OneLoopCondition == loc.free_proposers > 0

\* l.44: the loop condition of the while loop
OneLoopCondition ==
    loc.free_proposers > Max2(0, Len(proposers) - Len(receivers))

\* l.24-42: the call begins; an unknown mode leaves proposers unbound (l.40 raises)
OneStart ==
    /\ pc = "call"
    /\ protocol.kind = "OneToOne"
    /\ IF protocol.mode \in {"node", "channel"}
       THEN /\ loc' = [receiver_partner |-> [r \in Range(receivers) |-> None],
                       proposer_free |-> [p \in Range(proposers) |-> TRUE],
                       free_proposers |-> Len(proposers),
                       i |-> 1]
            /\ pc' = "while"
       ELSE /\ loc' = loc
            /\ pc' = "raised"
    /\ UNCHANGED <<numpy, energy, gains, has_message, protocol, nodes, channels, matching, exec, net, executor>>

\* l.63-65: the pairs, in the order of the receiver_partner dict, as (node, channel)
OneResult ==
    LET held == SelectSeq(receivers, LAMBDA r : loc.receiver_partner[r] # None)
    IN  [k \in 1..Len(held) |->
           IF protocol.mode = "node"
           THEN <<loc.receiver_partner[held[k]], held[k]>>
           ELSE <<held[k], loc.receiver_partner[held[k]]>>]

\* l.44: the while test; l.63-65: the return once it fails
OneWhile ==
    /\ pc = "while"
    /\ protocol.kind = "OneToOne"
    /\ IF OneLoopCondition
       THEN /\ pc' = "for"
            /\ loc' = [loc EXCEPT !.i = 1]
            /\ matching' = matching
       ELSE /\ pc' = "returned"
            /\ loc' = loc
            /\ matching' = OneResult
    /\ UNCHANGED <<numpy, energy, gains, has_message, protocol, nodes, channels, exec, net, executor>>

\* l.45-61: one iteration of "for proposer in proposers"; after the last one
\* the while test is next
OneFor ==
    /\ pc = "for"
    /\ protocol.kind = "OneToOne"
    /\ LET p == proposers[loc.i]
           r == FirstAccepting(proposer_preferences(p), p, loc.receiver_partner)
           old == IF r = None THEN None ELSE loc.receiver_partner[r]
       IN  /\ pc' = IF loc.i = Len(proposers) THEN "while" ELSE "for"
           /\ loc' =
                IF ~loc.proposer_free[p] \/ r = None
                THEN [loc EXCEPT !.i = @ + 1]
                ELSE IF old = None
                THEN [loc EXCEPT !.receiver_partner[r] = p,
                                 !.proposer_free[p] = FALSE,
                                 !.free_proposers = @ - 1,
                                 !.i = @ + 1]
                ELSE [loc EXCEPT !.receiver_partner[r] = p,
                                 !.proposer_free = [@ EXCEPT ![p] = FALSE, ![old] = TRUE],
                                 !.i = @ + 1]
    /\ UNCHANGED <<numpy, energy, gains, has_message, protocol, nodes, channels, matching, exec, net, executor>>

\* what a call never reads (the fields of the objects outside the lists it is
\* passed) is held at one value
Untouched(e, g, ns, cs) ==
    /\ \A n \in NodeIds \ Range(ns) : e[n] = 0
    /\ \A c \in ChannelIds, n \in NodeIds :
          (c \notin Range(cs) \/ n \notin Range(ns)) => g[c][n] = 0

\* a direct call of a protocol's matching function: lists of up to maxN nodes
\* and maxC channels, any energies and gains, of the number types given.  The lists are 1..k: the
\* energies and gains range over every assignment, so every order of the
\* objects in the lists is covered.
InitCall(protocols, maxN, maxC, types) ==
    /\ numpy \in types
    /\ nodes \in {Upto(k) : k \in 0..maxN}
    /\ channels \in {Upto(k) : k \in 0..maxC}
    /\ energy \in [NodeIds -> Energies]
    /\ gains \in [ChannelIds -> [NodeIds -> Gains]]
    /\ Untouched(energy, gains, nodes, channels)
    /\ has_message = [n \in NodeIds |-> TRUE]
    /\ protocol \in protocols
    /\ pc = "call"
    /\ loc = <<>>
    /\ matching = <<>>
    /\ exec = ExecStart
    /\ net = NoNetwork
    /\ executor = NoExecutor

\* before any call: the objects exist, no list is passed yet
InitIdle ==
    /\ numpy = TRUE
    /\ nodes = <<>>
    /\ channels = <<>>
    /\ energy = [n \in NodeIds |-> 0]
    /\ gains = [c \in ChannelIds |-> [n \in NodeIds |-> 0]]
    /\ has_message = [n \in NodeIds |-> TRUE]
    /\ protocol = [kind |-> "", mode |-> "", max_matches_per_receiver |-> 0]
    /\ pc = "idle"
    /\ loc = <<>>
    /\ matching = <<>>
    /\ exec = ExecStart
    /\ net = NoNetwork
    /\ executor = NoExecutor

\* the caller builds a protocol, sets energies and gains and calls the
\* matching function with lists of up to maxN nodes and maxC channels: the
\* calls of InitCall, made from InitIdle
Call(protocols, maxN, maxC, types) ==
    /\ pc = "idle"
    /\ numpy' \in types
    /\ nodes' \in {Upto(k) : k \in 0..maxN}
    /\ channels' \in {Upto(k) : k \in 0..maxC}
    /\ energy' \in [NodeIds -> Energies]
    /\ gains' \in [ChannelIds -> [NodeIds -> Gains]]
    /\ Untouched(energy', gains', nodes', channels')
    /\ protocol' \in protocols
    /\ pc' = "call"
    /\ UNCHANGED <<has_message, loc, matching, exec, net, executor>>

OneProtocols == [kind : {"OneToOne"}, mode : Modes, max_matches_per_receiver : {0}]

InitOne == InitCall(OneProtocols, MaxNodes, MaxChannels, {TRUE})

NextOne == OneStart \/ OneWhile \/ OneFor

\* OneToOneStableMatching.stable_matching, called directly
SpecOne == InitOne /\ [][NextOne]_vars

\* a call made from InitIdle, which never stops while a step is left to it:
\* the loop runs in one thread that nothing suspends
NextOneFair == Call(OneProtocols, MaxNodes, MaxChannels, {TRUE}) \/ NextOne

\* weak fairness of every step; that of OneFor is written with its ENABLED
\* spelled out (OneFor can be taken exactly when pc = "for")
SpecOneFair ==
    /\ InitIdle /\ [][NextOneFair]_vars
    /\ WF_vars(Call(OneProtocols, MaxNodes, MaxChannels, {TRUE}))
    /\ WF_vars(OneStart)
    /\ WF_vars(OneWhile)
    /\ ([]<>(pc # "for") \/ []<><<OneFor>>_vars)

\* the same, with node lists one longer than the channel lists allow to match
InitOneWide == InitCall(OneProtocols, MaxNodes + 1, MaxChannels, {TRUE})

SpecOneWide == InitOneWide /\ [][NextOne]_vars

\* ---------------------------------------- OneToManyStableMatching (l.76-122)
\* l.86, l.87: nodes propose, channels receive
many_proposer_preferences(n) == node_preferences(n)
many_receiver_preferences(c) == channel_preferences(c)

\* the capacity test with the bound itself let through
Mut_HasRoom(partners) == Len(partners) <= protocol.max_matches_per_receiver

\* l.99: the receiver holds fewer than max_matches_per_receiver partners
HasRoom(partners) == Len(partners) < protocol.max_matches_per_receiver

\* l.105: max(receiver_partners[receiver], key=index in the receiver's preferences)
worst_partner(c, partners) ==
    CHOOSE w \in Range(partners) :
        \A x \in Range(partners) :
            Index(many_receiver_preferences(c), x) <= Index(many_receiver_preferences(c), w)

\* a full channel takes nobody
Mut_ManyAccepts(c, p, partners) == HasRoom(partners)

\* l.99, l.106: does channel c take node p, given the partners it holds
ManyAccepts(c, p, partners) ==
    \/ HasRoom(partners)
    \/ Index(many_receiver_preferences(c), p)
         < Index(many_receiver_preferences(c), worst_partner(c, partners))

\* the channel at which the inner for loop of proposer p breaks, or None (l.98-111)
RECURSIVE ManyFirstAccepting(_, _, _)
ManyFirstAccepting(prefs, p, receiver_partners) ==
    IF prefs = <<>> THEN None
    ELSE IF ManyAccepts(Head(prefs), p, receiver_partners[Head(prefs)]) THEN Head(prefs)
    ELSE ManyFirstAccepting(Tail(prefs), p, receiver_partners)

\* list.remove(x) followed by list.append(y)
RemoveAppend(s, x, y) == SelectSeq(s, LAMBDA z : z # x) \o <<y>>

\* l.81-91: the call begins
ManyStart ==
    /\ pc = "call"
    /\ protocol.kind = "OneToMany"
    /\ loc' = [receiver_partners |-> [c \in Range(channels) |-> <<>>],
               proposer_free |-> [p \in Range(nodes) |-> TRUE],
               free_proposers |-> Len(nodes),
               i |-> 1]
    /\ pc' = "while"
    /\ UNCHANGED <<numpy, energy, gains, has_message, protocol, nodes, channels, matching, exec, net, executor>>

\* l.113: the pairs, channel by channel in the order of the receiver_partners
\* dict, each channel's partners in the order of its list
RECURSIVE ManyResult(_, _)
ManyResult(cs, receiver_partners) ==
    IF cs = <<>> THEN <<>>
    ELSE [k \in 1..Len(receiver_partners[Head(cs)]) |->
             <<receiver_partners[Head(cs)][k], Head(cs)>>]
         \o ManyResult(Tail(cs), receiver_partners)

\* l.93: the while test; l.113: the return once it fails
ManyWhile ==
    /\ pc = "while"
    /\ protocol.kind = "OneToMany"
    /\ IF loc.free_proposers > 0
       THEN /\ pc' = "for"
            /\ loc' = [loc EXCEPT !.i = 1]
            /\ matching' = matching
       ELSE /\ pc' = "returned"
            /\ loc' = loc
            /\ matching' = ManyResult(channels, loc.receiver_partners)
    /\ UNCHANGED <<numpy, energy, gains, has_message, protocol, nodes, channels, exec, net, executor>>

\* l.94-111: one iteration of "for proposer in proposers"; after the last one
\* the while test is next
ManyFor ==
    /\ pc = "for"
    /\ protocol.kind = "OneToMany"
    /\ LET p == nodes[loc.i]
           r == ManyFirstAccepting(many_proposer_preferences(p), p, loc.receiver_partners)
       IN  /\ pc' = IF loc.i = Len(nodes) THEN "while" ELSE "for"
           /\ loc' =
                IF ~loc.proposer_free[p] \/ r = None
                THEN [loc EXCEPT !.i = @ + 1]
                ELSE IF HasRoom(loc.receiver_partners[r])
                THEN [loc EXCEPT !.receiver_partners[r] = Append(@, p),
                                 !.proposer_free[p] = FALSE,
                                 !.free_proposers = @ - 1,
                                 !.i = @ + 1]
                ELSE LET w == worst_partner(r, loc.receiver_partners[r])
                     IN  [loc EXCEPT !.receiver_partners[r] = RemoveAppend(@, w, p),
                                     !.proposer_free = [@ EXCEPT ![p] = FALSE, ![w] = TRUE],
                                     !.i = @ + 1]
    /\ UNCHANGED <<numpy, energy, gains, has_message, protocol, nodes, channels, matching, exec, net, executor>>

ManyProtocols ==
    [kind : {"OneToMany"}, mode : {""}, max_matches_per_receiver : 1..MaxCap]

InitMany == InitCall(ManyProtocols, MaxNodes, MaxChannels, {TRUE})

NextMany == ManyStart \/ ManyWhile \/ ManyFor

\* OneToManyStableMatching.stable_matching, called directly
SpecMany == InitMany /\ [][NextMany]_vars

\* a call made from InitIdle, which never stops while a step is left to it:
\* the loop runs in one thread that nothing suspends
NextManyFair == Call(ManyProtocols, MaxNodes, MaxChannels, {TRUE}) \/ NextMany

\* weak fairness of every step; that of ManyFor is written with its ENABLED
\* spelled out (ManyFor can be taken exactly when pc = "for")
SpecManyFair ==
    /\ InitIdle /\ [][NextManyFair]_vars
    /\ WF_vars(Call(ManyProtocols, MaxNodes, MaxChannels, {TRUE}))
    /\ WF_vars(ManyStart)
    /\ WF_vars(ManyWhile)
    /\ ([]<>(pc # "for") \/ []<><<ManyFor>>_vars)

\* ------------------------------------------------------------- numbers
\* The arithmetic of OptimalSellingMechanism, exactly.  A number is a record:
\* k = "fin" is the rational p/q (q > 0, in lowest terms); "inf", "-inf" and
\* "nan" are the IEEE values; "raise" is an exception on its way up.  np
\* tells a numpy.float64 from a Python number: a Python division by zero
\* raises ZeroDivisionError, a numpy one returns inf, -inf or nan.
RECURSIVE Gcd(_, _)
Gcd(a, b) == IF b = 0 THEN a ELSE Gcd(b, a % b)

Abs(a) == IF a < 0 THEN 0 - a ELSE a

Fin(p, q, np) ==
    LET g == Gcd(Abs(p), q)
    IN  [k |-> "fin", p |-> p \div g, q |-> q \div g, np |-> np]

\* a Python int
Py(i) == [k |-> "fin", p |-> i, q |-> 1, np |-> FALSE]

Special(kind) == [k |-> kind, p |-> 0, q |-> 1, np |-> TRUE]
NRaise == [k |-> "raise", p |-> 0, q |-> 1, np |-> FALSE]

\* -1, 0 or 1; of a "fin", "inf" or "-inf"
Sign(a) ==
    IF a.k = "inf" THEN 1
    ELSE IF a.k = "-inf" THEN 0 - 1
    ELSE IF a.p > 0 THEN 1 ELSE IF a.p < 0 THEN 0 - 1 ELSE 0

Signed(sgn) == IF sgn > 0 THEN Special("inf") ELSE IF sgn < 0 THEN Special("-inf") ELSE Special("nan")

\* a - b
NSub(a, b) ==
    IF a.k = "raise" \/ b.k = "raise" THEN NRaise
    ELSE IF a.k = "nan" \/ b.k = "nan" THEN Special("nan")
    ELSE IF a.k = "fin" /\ b.k = "fin"
    THEN Fin(a.p * b.q - b.p * a.q, a.q * b.q, a.np \/ b.np)
    ELSE IF b.k = "fin" THEN a
    ELSE IF a.k = b.k THEN Special("nan")
    ELSE Signed(0 - Sign(b))

\* a * b
NMul(a, b) ==
    IF a.k = "raise" \/ b.k = "raise" THEN NRaise
    ELSE IF a.k = "nan" \/ b.k = "nan" THEN Special("nan")
    ELSE IF a.k = "fin" /\ b.k = "fin" THEN Fin(a.p * b.p, a.q * b.q, a.np \/ b.np)
    ELSE Signed(Sign(a) * Sign(b))

\* a / b
NDiv(a, b) ==
    IF a.k = "raise" \/ b.k = "raise" THEN NRaise
    ELSE IF a.k = "nan" \/ b.k = "nan" THEN Special("nan")
    ELSE IF b.k = "fin" /\ b.p = 0
    THEN IF a.np \/ b.np THEN Signed(Sign(a)) ELSE NRaise
    ELSE IF a.k = "fin" /\ b.k = "fin"
    THEN Fin(a.p * b.q * Sign(b), a.q * Abs(b.p), a.np \/ b.np)
    ELSE IF a.k = "fin" THEN Fin(0, 1, TRUE)
    ELSE IF b.k = "fin" THEN Signed(Sign(a) * Sign(b))
    ELSE Special("nan")

RECURSIVE IntPow(_, _)
IntPow(b, m) == IF m = 0 THEN 1 ELSE b * IntPow(b, m - 1)

\* a ** m, for a rational a and an int m >= 0
NPow(a, m) ==
    IF a.k = "raise" THEN NRaise
    ELSE Fin(IntPow(a.p, m), IntPow(a.q, m), a.np)

\* a < b; every comparison with nan is false
NLt(a, b) ==
    IF a.k = "nan" \/ b.k = "nan" THEN FALSE
    ELSE IF a.k = "fin" /\ b.k = "fin" THEN a.p * b.q < b.p * a.q
    ELSE IF a.k = b.k THEN FALSE
    ELSE a.k = "-inf" \/ b.k = "inf"

\* max(C) of a non-empty list: "if item > max then max = item", from the left
RECURSIVE PyMaxFrom(_, _)
PyMaxFrom(m, rest) ==
    IF rest = <<>> THEN m
    ELSE PyMaxFrom(IF NLt(m, Head(rest)) THEN Head(rest) ELSE m, Tail(rest))

PyMax(C) == PyMaxFrom(Head(C), Tail(C))

\* np.argmax(C), 1-based: the first nan if there is one, else the first maximum
ArgMax(C) ==
    IF \E j \in 1..Len(C) : C[j].k = "nan"
    THEN CHOOSE j \in 1..Len(C) : C[j].k = "nan" /\ \A i \in 1..(j - 1) : C[i].k # "nan"
    ELSE CHOOSE j \in 1..Len(C) :
            /\ \A i \in 1..Len(C) : ~NLt(C[j], C[i])
            /\ \A i \in 1..(j - 1) : NLt(C[i], C[j])

\* min(chs, key=lambda ch: ch.gains[n]) of a non-empty list: the first minimum
MinGainChannel(chs, n) ==
    chs[CHOOSE j \in 1..Len(chs) :
            /\ \A i \in 1..Len(chs) : gains[chs[j]][n] <= gains[chs[i]][n]
            /\ \A i \in 1..(j - 1) : gains[chs[i]][n] > gains[chs[j]][n]]

\* scipy.stats.uniform.cdf and .pdf (loc 0, scale 1); they return numpy floats
UniformCdf(v) ==
    IF v.k = "raise" THEN NRaise
    ELSE IF NLt(v, Py(0)) THEN Fin(0, 1, TRUE)
    ELSE IF NLt(Py(1), v) THEN Fin(1, 1, TRUE)
    ELSE Fin(v.p, v.q, TRUE)

UniformPdf(v) ==
    IF v.k = "raise" THEN NRaise
    ELSE IF NLt(v, Py(0)) \/ NLt(Py(1), v) THEN Fin(0, 1, TRUE)
    ELSE Fin(1, 1, TRUE)

\* --------------------------------------- OptimalSellingMechanism (l.124-193)
ValueModes == {"energy", "probability", "other"}

\* l.130-137: value(node, channels)
value(n, chs) ==
    IF protocol.mode = "energy" THEN Fin(energy[n], 2, numpy)
    ELSE IF protocol.mode = "probability"
    THEN IF chs = <<>> THEN NRaise   \* min() of an empty list: ValueError
         ELSE LET k == gains[MinGainChannel(chs, n)][n]
                  pr == probability_of_success(energy[n], k)
              IN  \* min(1, x) returns the int 1 unless x < 1
                  IF pr = <<1, 1>> THEN Py(1) ELSE Fin(pr[1], pr[2], numpy)
    ELSE Py(0)

\* l.139-146: cdf(value, node, num_channels)
cdf(v, num_channels) ==
    IF protocol.mode = "energy" THEN UniformCdf(v)
    ELSE IF protocol.mode = "probability"
    THEN NDiv(NMul(NSub(Py(1), NPow(v, num_channels - 1)), Py(num_channels)),
              Py(num_channels - 1))
    ELSE Py(1)

\* l.148-155: pdf(value, node, num_channels)
pdf(v, num_channels) ==
    IF protocol.mode = "energy" THEN UniformPdf(v)
    ELSE IF protocol.mode = "probability"
    THEN NDiv(NSub(NMul(Py(num_channels), v), NPow(v, num_channels)),
              Py(num_channels - 1))
    ELSE Py(1)

\* l.158-160: the virtual value, c(node, channels) in the code (c names the
\* channels here)
virtual_c(n, chs) ==
    LET v == value(n, chs)
    IN  NSub(v, NDiv(NSub(Py(1), cdf(v, Len(chs))), pdf(v, Len(chs))))

\* l.164: C = [self.c(node, channels) for node in Nodes]
VirtualValues(Nodes, chs) == [j \in 1..Len(Nodes) |-> virtual_c(Nodes[j], chs)]

\* l.165: max(C) < 0
Stops(C) == NLt(PyMax(C), Py(0))

\* l.163-168: q, on the list C of l.164: None, or the (1-based) index of the
\* winner; random.choice is given the one-element list [np.argmax(C)]
q(C) == IF Stops(C) THEN None ELSE ArgMax(C)

\* l.170-174: the call begins
OsmStart ==
    /\ pc = "call"
    /\ protocol.kind = "OptimalSelling"
    /\ loc' = [waiting_nodes |-> nodes, free_channels |-> channels,
               matching |-> <<>>, waited |-> <<>>, C |-> <<>>, winner_index |-> None]
    /\ pc' = "while"
    /\ UNCHANGED <<numpy, energy, gains, has_message, protocol, nodes, channels, matching, exec, net, executor>>

\* waiting_nodes.pop(i)
Pop(s, i) == SubSeq(s, 1, i - 1) \o SubSeq(s, i + 1, Len(s))

\* l.176-184: one round of the while loop, or the return.  loc keeps, of the
\* last round, the nodes that waited, their virtual values and the index q gave
OsmRound ==
    /\ pc = "while"
    /\ protocol.kind = "OptimalSelling"
    /\ IF loc.waiting_nodes = <<>>
       THEN /\ pc' = "returned"
            /\ matching' = loc.matching
            /\ loc' = loc
       ELSE LET C == VirtualValues(loc.waiting_nodes, loc.free_channels)
                seen == [loc EXCEPT !.waited = loc.waiting_nodes, !.C = C]
            IN  IF \E j \in 1..Len(C) : C[j].k = "raise"
                THEN /\ pc' = "raised"
                     /\ matching' = matching
                     /\ loc' = [seen EXCEPT !.winner_index = None]
                ELSE IF q(C) = None
                THEN /\ pc' = "returned"
                     /\ matching' = loc.matching
                     /\ loc' = [seen EXCEPT !.winner_index = None]
                ELSE LET winner == loc.waiting_nodes[q(C)]
                         popped == [seen EXCEPT !.winner_index = q(C),
                                                !.waiting_nodes = Pop(@, q(C))]
                     IN  IF loc.free_channels = <<>>
                         THEN \* l.181: min() of an empty list raises ValueError
                              /\ pc' = "raised"
                              /\ matching' = matching
                              /\ loc' = popped
                         ELSE /\ pc' = "while"
                              /\ matching' = matching
                              /\ loc' = [popped EXCEPT !.matching =
                                   Append(@, <<winner, MinGainChannel(loc.free_channels, winner)>>)]
    /\ UNCHANGED <<numpy, energy, gains, has_message, protocol, nodes, channels, exec, net, executor>>

OsmProtocols ==
    [kind : {"OptimalSelling"}, mode : ValueModes, max_matches_per_receiver : {0}]

InitOsm == InitCall(OsmProtocols, MaxNodes, MaxChannels, BOOLEAN)

NextOsm == OsmStart \/ OsmRound

\* OptimalSellingMechanism.matching, called directly
SpecOsm == InitOsm /\ [][NextOsm]_vars

\* ------------------------------------------------------ Protocol.execute
\* the record Protocol.execute keeps of a send_data call
SendRecord(n, out) ==
    [node |-> n, had_message |-> has_message[n], returned |-> out.returned]

\* l.11-17: one iteration of RandomAccessProtocol.execute's loop over nodes:
\* with channels, random.choice picks one and the node sends on it
RaFor ==
    /\ pc = "call"
    /\ protocol.kind = "RandomAccess"
    /\ exec.k <= Len(nodes)
    /\ LET n == nodes[exec.k]
       IN  IF channels # <<>>
           THEN \E j \in 1..Len(channels), u \in Draws :
                   LET out == send_data(has_message[n], energy[n], gains[channels[j]][n], u)
                   IN  /\ has_message' = [has_message EXCEPT ![n] = out.has_message]
                       /\ exec' = [success |-> exec.success + (IF out.returned THEN 1 ELSE 0),
                                   k |-> exec.k + 1,
                                   last |-> SendRecord(n, out)]
           ELSE /\ has_message' = has_message
                /\ exec' = [exec EXCEPT !.k = @ + 1]
    /\ UNCHANGED <<numpy, energy, gains, protocol, nodes, channels, pc, loc, matching, net, executor>>

\* l.17: return success
RaReturn ==
    /\ pc = "call"
    /\ protocol.kind = "RandomAccess"
    /\ exec.k > Len(nodes)
    /\ pc' = "done"
    /\ UNCHANGED <<numpy, energy, gains, has_message, protocol, nodes, channels, loc, matching, exec, net, executor>>

\* an iteration of the same loop in which the send uses up the node's energy
Mut_ExecFor ==
    /\ pc = "returned"
    /\ exec.k <= Len(matching)
    /\ LET n == matching[exec.k][1]
           ch == matching[exec.k][2]
       IN  \E u \in Draws :
              LET out == send_data(has_message[n], energy[n], gains[ch][n], u)
              IN  /\ has_message' = [has_message EXCEPT ![n] = out.has_message]
                  /\ energy' = [energy EXCEPT ![n] = 0]
                  /\ exec' = [success |-> exec.success + (IF out.returned THEN 1 ELSE 0),
                              k |-> exec.k + 1,
                              last |-> SendRecord(n, out)]
    /\ UNCHANGED <<numpy, gains, protocol, nodes, channels, pc, loc, matching, net, executor>>

\* l.70-73, l.118-121, l.189-192: one iteration of "for node, channel in
\* matching" of the three matching protocols (a pair never holds None)
ExecFor ==
    /\ pc = "returned"
    /\ exec.k <= Len(matching)
    /\ LET n == matching[exec.k][1]
           ch == matching[exec.k][2]
       IN  \E u \in Draws :
              LET out == send_data(has_message[n], energy[n], gains[ch][n], u)
              IN  /\ has_message' = [has_message EXCEPT ![n] = out.has_message]
                  /\ exec' = [success |-> exec.success + (IF out.returned THEN 1 ELSE 0),
                              k |-> exec.k + 1,
                              last |-> SendRecord(n, out)]
    /\ UNCHANGED <<numpy, energy, gains, protocol, nodes, channels, pc, loc, matching, net, executor>>

\* l.74, l.122, l.193: return success
ExecReturn ==
    /\ pc = "returned"
    /\ exec.k > Len(matching)
    /\ pc' = "done"
    /\ UNCHANGED <<numpy, energy, gains, has_message, protocol, nodes, channels, loc, matching, exec, net, executor>>

\* the steps of a call of execute, whatever the protocol
ExecuteStep ==
    \/ RaFor \/ RaReturn
    \/ OneStart \/ OneWhile \/ OneFor
    \/ ManyStart \/ ManyWhile \/ ManyFor
    \/ OsmStart \/ OsmRound
    \/ ExecFor \/ ExecReturn

RaProtocols == [kind : {"RandomAccess"}, mode : {""}, max_matches_per_receiver : {0}]

\* the four protocols, with every constructor argument
Protocols == RaProtocols \cup OneProtocols \cup ManyProtocols \cup OsmProtocols

\* a direct call of execute: as InitCall, and any node may lack a message
InitExec ==
    /\ numpy \in BOOLEAN
    /\ nodes \in {Upto(k) : k \in 0..MaxNodes}
    /\ channels \in {Upto(k) : k \in 0..MaxChannels}
    /\ energy \in [NodeIds -> Energies]
    /\ gains \in [ChannelIds -> [NodeIds -> Gains]]
    /\ Untouched(energy, gains, nodes, channels)
    /\ has_message \in [NodeIds -> BOOLEAN]
    /\ \A n \in NodeIds \ Range(nodes) : ~has_message[n]
    /\ protocol \in Protocols
    /\ pc = "call"
    /\ loc = <<>>
    /\ matching = <<>>
    /\ exec = ExecStart
    /\ net = NoNetwork
    /\ executor = NoExecutor

NextExec == ExecuteStep

\* execute of any of the four protocols, called directly
SpecExec == InitExec /\ [][NextExec]_vars

\* ------------------------------------------------- Network (l.53-104)
\* what harvesting_slot draws: energies from stats.uniform, in [0, 1) (0 and
\* 1/2 here), gains from stats.expon
HarvestEnergies == {0, 1}

\* the input rates of the trials, in halves: 0 and 1/2 (a node then draws a
\* message in some slots and none in others)
Rates == {0, 1}

Population == 1..net.num_nodes

\* the test with the draw allowed to equal the probability
Mut_Generated(u, rate, num_nodes) == u * num_nodes <= 2 * rate

\* l.80: random.uniform(0, 1) < input_rate / self.num_nodes, for a draw of u
\* quarters and a rate of rate halves
Generated(u, rate, num_nodes) == u * num_nodes < 2 * rate

\* the new flag whatever keep_alive says
Mut_NewHasMessage(had, generated) == generated

\* l.81-84: has_message after create_messages saw the node
NewHasMessage(had, generated) ==
    IF net.keep_alive THEN had \/ generated ELSE generated

\* a table of the gains of the first num_nodes channels for the first
\* num_nodes nodes, as a table over all the objects (0 elsewhere)
Padded(t, num_nodes) ==
    [ch \in ChannelIds |-> [n \in NodeIds |->
        IF ch <= num_nodes /\ n <= num_nodes THEN t[ch][n] ELSE 0]]

\* l.40-45: the gains generate_gains may give the population's channels: a
\* draw per node (per_user) or one draw per channel
GainTables(num_nodes, per_user) ==
    IF per_user
    THEN {Padded(t, num_nodes) : t \in [1..num_nodes -> [1..num_nodes -> Gains]]}
    ELSE {Padded([ch \in 1..num_nodes |-> [n \in 1..num_nodes |-> t[ch]]], num_nodes) :
             t \in [1..num_nodes -> Gains]}

\* create_messages followed by sending_slot, with no harvesting_slot between
Mut_CreateMessages ==
    /\ net.at = "create_messages"
    /\ \E us \in [Population -> Draws] :
          has_message' = [n \in NodeIds |->
              IF n \in Population
              THEN NewHasMessage(has_message[n], Generated(us[n], net.rate, net.num_nodes))
              ELSE has_message[n]]
    /\ net' = [net EXCEPT !.at = "sending_slot"]
    /\ UNCHANGED <<numpy, energy, gains, protocol, nodes, channels, pc, loc, matching, exec, executor>>

\* l.78-84: create_messages, a draw per node
CreateMessages ==
    /\ net.at = "create_messages"
    /\ \E us \in [Population -> Draws] :
          has_message' = [n \in NodeIds |->
              IF n \in Population
              THEN NewHasMessage(has_message[n], Generated(us[n], net.rate, net.num_nodes))
              ELSE has_message[n]]
    /\ net' = [net EXCEPT !.at = "harvesting_slot"]
    /\ UNCHANGED <<numpy, energy, gains, protocol, nodes, channels, pc, loc, matching, exec, executor>>

\* l.65-70: harvesting_slot: every channel's gains and every node's energy
\* are drawn anew; the energies are elements of a numpy array
HarvestingSlot ==
    /\ net.at = "harvesting_slot"
    /\ gains' \in GainTables(net.num_nodes, net.per_user)
    /\ \E es \in [Population -> HarvestEnergies] :
          energy' = [n \in NodeIds |-> IF n \in Population THEN es[n] ELSE energy[n]]
    /\ numpy' = TRUE
    /\ net' = [net EXCEPT !.at = "sending_slot"]
    /\ UNCHANGED <<has_message, protocol, nodes, channels, pc, loc, matching, exec, executor>>

\* every node of the population, with or without a message
Mut_sending_nodes == Upto(net.num_nodes)

\* l.86-87: sending_nodes
sending_nodes == SelectSeq(Upto(net.num_nodes), LAMBDA n : has_message[n])

\* l.72-76: sending_slot calls protocol.execute on copies of the lists
SendingSlot ==
    /\ net.at = "sending_slot"
    /\ nodes' = IF net.match_before THEN Upto(net.num_nodes) ELSE sending_nodes
    /\ channels' = Upto(net.num_nodes)
    /\ pc' = "call"
    /\ loc' = <<>>
    /\ matching' = <<>>
    /\ exec' = ExecStart
    /\ net' = [net EXCEPT !.at = "execute"]
    /\ UNCHANGED <<numpy, energy, gains, has_message, protocol, executor>>

\* l.95-97: execute has returned (its arguments and locals are gone): the
\* result is added, and the loop goes on or simulate_rate returns the mean,
\* total_result / trial_length
SlotEnd ==
    /\ net.at = "execute"
    /\ pc = "done"
    /\ pc' = "idle"
    /\ nodes' = <<>>
    /\ channels' = <<>>
    /\ loc' = <<>>
    /\ matching' = <<>>
    /\ exec' = ExecStart
    /\ LET total == net.total_result + exec.success
       IN  net' = IF net.slot + 1 < net.trial_length
                  THEN [net EXCEPT !.total_result = total, !.slot = @ + 1,
                                   !.at = "create_messages"]
                  ELSE [net EXCEPT !.total_result = total, !.slot = @ + 1,
                                   !.at = "returned",
                                   !.mean = Fin(total, net.trial_length, FALSE)]
    /\ UNCHANGED <<numpy, energy, gains, has_message, protocol, executor>>

\* the protocols a Network is run with here: those built with a known mode
NetProtocols ==
    {pr \in Protocols : pr.mode \in {"", "node", "channel", "energy", "probability"}}

\* simulate_rate after its l.90-91: reset has built the nodes (no message,
\* energy 0) and the channels (gains drawn by Channel.__init__), total_result
\* is 0 and the loop is about to start
InitNet ==
    /\ net \in [num_nodes : 1..MaxPopulation, per_user : BOOLEAN,
                match_before : BOOLEAN, keep_alive : BOOLEAN,
                rate : Rates, trial_length : 1..MaxTrial,
                slot : {0}, total_result : {0}, at : {"create_messages"},
                mean : {<<>>}]
    /\ numpy = FALSE
    /\ energy = [n \in NodeIds |-> 0]
    /\ gains \in GainTables(net.num_nodes, net.per_user)
    /\ has_message = [n \in NodeIds |-> FALSE]
    /\ protocol \in NetProtocols
    /\ nodes = <<>>
    /\ channels = <<>>
    /\ pc = "idle"
    /\ loc = <<>>
    /\ matching = <<>>
    /\ exec = ExecStart
    /\ executor = NoExecutor

NextNet == CreateMessages \/ HarvestingSlot \/ SendingSlot \/ ExecuteStep \/ SlotEnd

\* one trial: Network.simulate_rate with any of the protocols
SpecNet == InitNet /\ [][NextNet]_vars

\* ------------------------------------------- MultiThreadedNetwork.simulate
\* the longest input_rates list
MaxRates == 2

\* l.109: {rate: Network(self.num_nodes) for rate in input_rates}: one Network
\* is built for every element of the list and stored under its rate, a later
\* element replacing what an earlier one stored under the same key.  A
\* Network is named by the position of the element it was built for.
thread_networks(input_rates) ==
    [r \in Range(input_rates) |->
        CHOOSE j \in 1..Len(input_rates) :
            /\ input_rates[j] = r
            /\ \A i \in (j + 1)..Len(input_rates) : input_rates[i] # r]

\* the trial of future i reads the fields named of its Network: it now holds
\* what another trial's reset built if one of them is not of its own making
ReadBy(i, fields) ==
    LET nw == executor.networks[executor.futures[i].network]
    IN  [executor.futures[i] EXCEPT
            !.foreign = @ \/ \E f \in fields : nw[f] # i]

\* l.111: executor.submit(thread_networks[rate].simulate_rate, protocol, rate,
\* trial_length), for the next rate of the list; the pool (of 5 workers or
\* more) may start the call at once
Submit ==
    /\ executor # NoExecutor
    /\ executor.at = "submit"
    /\ LET k    == Len(executor.futures) + 1
           rate == executor.input_rates[k]
       IN  executor' = [executor EXCEPT
               !.futures = Append(@, [network |-> executor.thread_networks[rate],
                                      rate |-> rate, at |-> "reset_nodes",
                                      slot |-> 0, foreign |-> FALSE]),
               !.at = IF k = Len(executor.input_rates) THEN "collect" ELSE "submit"]
    /\ UNCHANGED <<numpy, energy, gains, has_message, protocol, nodes, channels, pc,
                   loc, matching, exec, net>>

\* l.62, in the worker of future i: self.nodes = [Node(i) ...]
TrialResetNodes(i) ==
    /\ executor.futures[i].at = "reset_nodes"
    /\ executor' = [executor EXCEPT
           !.networks[executor.futures[i].network].nodes = i,
           !.futures[i].at = "reset_channels"]
    /\ UNCHANGED <<numpy, energy, gains, has_message, protocol, nodes, channels, pc,
                   loc, matching, exec, net>>

\* l.63, in the worker of future i: self.channels = [Channel(i, self.nodes,
\* ...) ...], which reads self.nodes
TrialResetChannels(i) ==
    /\ executor.futures[i].at = "reset_channels"
    /\ executor' = [executor EXCEPT
           !.networks[executor.futures[i].network].channels = i,
           !.futures[i] = [ReadBy(i, {"nodes"}) EXCEPT !.at = "create_messages"]]
    /\ UNCHANGED <<numpy, energy, gains, has_message, protocol, nodes, channels, pc,
                   loc, matching, exec, net>>

\* l.94, in the worker of future i: create_messages goes over self.nodes
TrialCreateMessages(i) ==
    /\ executor.futures[i].at = "create_messages"
    /\ executor' = [executor EXCEPT
           !.futures[i] = [ReadBy(i, {"nodes"}) EXCEPT !.at = "harvesting_slot"]]
    /\ UNCHANGED <<numpy, energy, gains, has_message, protocol, nodes, channels, pc,
                   loc, matching, exec, net>>

\* l.95, in the worker of future i: harvesting_slot goes over self.channels
\* and self.nodes
TrialHarvestingSlot(i) ==
    /\ executor.futures[i].at = "harvesting_slot"
    /\ executor' = [executor EXCEPT
           !.futures[i] = [ReadBy(i, {"nodes", "channels"}) EXCEPT
                              !.at = "sending_slot"]]
    /\ UNCHANGED <<numpy, energy, gains, has_message, protocol, nodes, channels, pc,
                   loc, matching, exec, net>>

\* l.96-98, in the worker of future i: sending_slot copies self.nodes (or
\* sending_nodes()) and self.channels; the loop goes on or the call returns
TrialSendingSlot(i) ==
    /\ executor.futures[i].at = "sending_slot"
    /\ executor' = [executor EXCEPT
           !.futures[i] = [ReadBy(i, {"nodes", "channels"}) EXCEPT
                              !.slot = @ + 1,
                              !.at = IF executor.futures[i].slot + 1 < executor.trial_length
                                     THEN "create_messages" ELSE "done"]]
    /\ UNCHANGED <<numpy, energy, gains, has_message, protocol, nodes, channels, pc,
                   loc, matching, exec, net>>

\* l.112-114: future.result() of the next future returns once its call has
\* returned
Collect ==
    /\ executor # NoExecutor
    /\ executor.at = "collect"
    /\ executor.collected < Len(executor.futures)
    /\ executor.futures[executor.collected + 1].at = "done"
    /\ executor' = [executor EXCEPT !.collected = @ + 1]
    /\ UNCHANGED <<numpy, energy, gains, has_message, protocol, nodes, channels, pc,
                   loc, matching, exec, net>>

\* l.115: every result is in
Return ==
    /\ executor # NoExecutor
    /\ executor.at = "collect"
    /\ executor.collected = Len(executor.futures)
    /\ executor' = [executor EXCEPT !.at = "returned"]
    /\ UNCHANGED <<numpy, energy, gains, has_message, protocol, nodes, channels, pc,
                   loc, matching, exec, net>>

\* the calls running in the pool's workers, in any interleaving
Worker ==
    /\ executor # NoExecutor
    /\ \E i \in 1..Len(executor.futures) :
          \/ TrialResetNodes(i)
          \/ TrialResetChannels(i)
          \/ TrialCreateMessages(i)
          \/ TrialHarvestingSlot(i)
          \/ TrialSendingSlot(i)

\* l.54-59: the fields Network.__init__ sets, for every way of building the
\* MultiThreadedNetwork that simulate is called on
Configurations ==
    [num_nodes : 1..MaxPopulation, per_user : BOOLEAN,
     match_before : BOOLEAN, keep_alive : BOOLEAN]

\* l.109: Network(self.num_nodes): the other arguments take the defaults of l.54
Network(num_nodes) ==
    [num_nodes |-> num_nodes, per_user |-> TRUE,
     match_before |-> FALSE, keep_alive |-> TRUE]

\* the lists of rates simulate is called with
RateLists == UNION {[1..k -> Rates] : k \in 0..MaxRates}

\* simulate after its l.107-110, called on a Network of any configuration:
\* the Networks are built (each by its constructor's reset, marked 0), the pool
\* is open and nothing is submitted
InitMT ==
    /\ \E input_rates \in RateLists, trial_length \in 1..MaxTrial, self \in Configurations :
          executor = [self |-> self,
                      input_rates |-> input_rates,
                      trial_length |-> trial_length,
                      thread_networks |-> thread_networks(input_rates),
                      networks |-> [j \in 1..Len(input_rates) |->
                                       [nodes |-> 0, channels |-> 0,
                                        configuration |-> Network(self.num_nodes)]],
                      futures |-> <<>>,
                      collected |-> 0,
                      at |-> IF Len(input_rates) = 0 THEN "collect" ELSE "submit"]
    /\ numpy = FALSE
    /\ energy = [n \in NodeIds |-> 0]
    /\ gains = [c \in ChannelIds |-> [n \in NodeIds |-> 0]]
    /\ has_message = [n \in NodeIds |-> FALSE]
    /\ protocol \in NetProtocols
    /\ nodes = <<>>
    /\ channels = <<>>
    /\ pc = "idle"
    /\ loc = <<>>
    /\ matching = <<>>
    /\ exec = ExecStart
    /\ net = NoNetwork

NextMT == Submit \/ Worker \/ Collect \/ Return

\* MultiThreadedNetwork.simulate with any list of rates
SpecMT == InitMT /\ [][NextMT]_vars

\* ------------------------------------------------- the returned matching
\* the channel a node is paired with in the returned list, or None
MatchedChannel(n) ==
    IF \E k \in 1..Len(matching) : matching[k][1] = n
    THEN matching[CHOOSE k \in 1..Len(matching) : matching[k][1] = n][2]
    ELSE None

\* the node a channel is paired with in the returned list, or None
MatchedNode(c) ==
    IF \E k \in 1..Len(matching) : matching[k][2] = c
    THEN matching[CHOOSE k \in 1..Len(matching) : matching[k][2] = c][1]
    ELSE None

\* no two nodes of the list have the same energy, and no node sees the same
\* gain on two channels of the list
StrictPreferences ==
    /\ \A n1, n2 \in Range(nodes) : n1 # n2 => energy[n1] # energy[n2]
    /\ \A n \in Range(nodes) : \A c1, c2 \in Range(channels) :
          c1 # c2 => gains[c1][n] # gains[c2][n]

\* node n and channel c, not paired with each other, would both rather be
BlockingPair(n, c) ==
    /\ MatchedChannel(n) # c
    /\ \/ MatchedChannel(n) = None
       \/ gains[c][n] < gains[MatchedChannel(n)][n]
    /\ \/ MatchedNode(c) = None
       \/ energy[n] > energy[MatchedNode(c)]

\* C1: under strict preferences the matching returned by
\* OneToOneStableMatching.stable_matching has no blocking pair: no node and
\* channel, not paired with each other, that each prefer the other to what
\* they were given (or were given nothing).
C1_NoBlockingPair ==
    (pc = "returned" /\ protocol.kind = "OneToOne" /\ StrictPreferences) =>
        \A n \in Range(nodes), c \in Range(channels) : ~BlockingPair(n, c)

\* C10: with nodes proposing, a node whose energy is above every other
\* node's is paired, in the returned matching, with a channel of the lowest
\* gain that node sees.
C10_TopNodeGetsBestChannel ==
    (/\ pc = "returned"
     /\ protocol.kind = "OneToOne"
     /\ protocol.mode = "node"
     /\ nodes # <<>>
     /\ channels # <<>>) =>
        \A h \in Range(nodes) :
            (\A n \in Range(nodes) \ {h} : energy[h] > energy[n]) =>
                /\ MatchedChannel(h) # None
                /\ \A c \in Range(channels) :
                      gains[MatchedChannel(h)][h] <= gains[c][h]

\* C10's case: two nodes of distinct energies want the same channel, the
\* second in the list has the higher energy, and the call has returned
C10_Witness ==
    /\ pc = "returned"
    /\ protocol.kind = "OneToOne"
    /\ protocol.mode = "node"
    /\ Len(nodes) = 2
    /\ Len(channels) = 2
    /\ StrictPreferences
    /\ energy[2] > energy[1]
    /\ gains[2][1] < gains[1][1]
    /\ gains[2][2] < gains[1][2]
    /\ MatchedChannel(2) = 2
    /\ MatchedChannel(1) = 1

\* the number of pairs of the returned list that name channel c
PairCount(c) == Cardinality({k \in 1..Len(matching) : matching[k][2] = c})

\* C2: in OneToManyStableMatching.stable_matching no channel holds more than
\* max_matches_per_receiver nodes, after every step of the loop and in the
\* returned list of pairs.
C2_CapacityRespected ==
    (protocol.kind = "OneToMany" /\ pc # "call") =>
        \A c \in Range(channels) :
            /\ Len(loc.receiver_partners[c]) <= protocol.max_matches_per_receiver
            /\ PairCount(c) <= protocol.max_matches_per_receiver

\* C2's case: the loop is running, a channel is full, and a node that ranks
\* the full channel first is free and has its turn
C2_Witness ==
    /\ protocol.kind = "OneToMany"
    /\ pc = "for"
    /\ \E c \in Range(channels) :
          /\ Len(loc.receiver_partners[c]) = protocol.max_matches_per_receiver
          /\ loc.proposer_free[nodes[loc.i]]
          /\ Head(many_proposer_preferences(nodes[loc.i])) = c

\* C8: send_data returns true only if the node had a message, and after the
\* call has_message is true exactly when the node had a message and the call
\* returned false.
C8_SendDataContract ==
    (pc = "node" /\ loc # <<>>) =>
        /\ loc.returned => loc.had_message
        /\ has_message[loc.node] = (loc.had_message /\ ~loc.returned)

\* C8's case: the three outcomes of a call (no message; success; failure)
C8_Witness ==
    /\ pc = "node"
    /\ loc # <<>>
    /\ ~loc.had_message
    /\ ~loc.returned
    /\ loc.energy >= 2 * Pow2(loc.channel_gain)

\* C9: for a node that has a message, send_data fails whenever the energy is
\* 0 and succeeds whenever energy * exp(-gain) >= 1, whatever the draw; the
\* probability it compares the draw with is within [0, 1].
C9_SuccessBounds ==
    (pc = "node" /\ loc # <<>> /\ loc.had_message) =>
        /\ loc.energy = 0 => ~loc.returned
        /\ loc.energy >= 2 * Pow2(loc.channel_gain) => loc.returned
        /\ 0 <= loc.probability[1]
        /\ loc.probability[1] <= loc.probability[2]

\* C9's case: a node with a message and a raw product above 1 has sent on the
\* largest draw
C9_Witness ==
    /\ pc = "node"
    /\ loc # <<>>
    /\ loc.had_message
    /\ loc.energy > 2 * Pow2(loc.channel_gain)
    /\ loc.draw = 3
    /\ loc.returned

\* a number that is not negative: a rational >= 0 or +inf (nan is neither
\* negative nor non-negative)
NonNegative(x) == x.k = "inf" \/ (x.k = "fin" /\ x.p >= 0)

\* a round of OptimalSellingMechanism.matching has just assigned a node
OsmAssigned ==
    /\ protocol.kind = "OptimalSelling"
    /\ pc = "while"
    /\ loc.winner_index # None

\* a round has just found no winner and left the loop
OsmStopped ==
    /\ protocol.kind = "OptimalSelling"
    /\ pc = "returned"
    /\ loc.C # <<>>
    /\ loc.winner_index = None

\* C3: the node a round of OptimalSellingMechanism.matching assigns has the
\* maximum virtual value of the nodes that waited in that round, and that
\* value is not negative; a round stops the loop exactly when every waiting
\* node's virtual value is negative, and then assigns no node: what is
\* returned is what was assigned before.
C3_WinnerIsNonNegativeMaximum ==
    /\ OsmAssigned =>
          /\ NonNegative(loc.C[loc.winner_index])
          /\ \A j \in 1..Len(loc.C) : ~NLt(loc.C[loc.winner_index], loc.C[j])
    /\ OsmStopped =>
          /\ \A j \in 1..Len(loc.C) : NLt(loc.C[j], Py(0))
          /\ loc.waiting_nodes = loc.waited
          /\ matching = loc.matching

\* the protocol was built with a mode its class knows
KnownMode ==
    /\ protocol.kind = "OneToOne" => protocol.mode \in {"node", "channel"}
    /\ protocol.kind = "OptimalSelling" => protocol.mode \in {"energy", "probability"}

\* C6: execute called with an empty channel list or an empty node list raises
\* no error and returns 0 successes, and the matching function returns an
\* empty assignment.
C6_EmptyListsGiveZero ==
    (KnownMode /\ (nodes = <<>> \/ channels = <<>>)) =>
        /\ pc # "raised"
        /\ pc = "returned" => matching = <<>>
        /\ pc = "done" => exec.success = 0

\* C4: under keep-alive, within a trial, a node's has_message goes from true
\* to false only in a step in which execute made a send_data call on that
\* node that returned true; in particular create_messages never clears it.
C4_ClearedOnlyBySuccessfulSend ==
    [][net.keep_alive =>
          \A n \in NodeIds :
              (has_message[n] /\ ~has_message'[n]) =>
                  /\ net.at = "execute"
                  /\ exec'.k = exec.k + 1
                  /\ exec'.last # <<>>
                  /\ exec'.last.node = n
                  /\ exec'.last.returned]_vars

\* C4's case: under keep-alive, in the second slot of a trial, a node that
\* came with a message has sent it and lost the flag
C4_Witness ==
    /\ net # NoNetwork
    /\ net.keep_alive
    /\ net.slot = 1
    /\ net.at = "execute"
    /\ exec.last # <<>>
    /\ exec.last.had_message
    /\ exec.last.returned
    /\ ~has_message[exec.last.node]

\* C5: with input_rate = 0, whatever the protocol, the flags and the trial
\* length, no node ever has a message, no call raises, and simulate_rate
\* returns a mean of exactly 0.
C5_ZeroRateZeroThroughput ==
    (net # NoNetwork /\ net.rate = 0) =>
        /\ \A n \in NodeIds : ~has_message[n]
        /\ pc # "raised"
        /\ net.total_result = 0
        /\ net.at = "returned" => (net.mean.k = "fin" /\ net.mean.p = 0)

\* C5's case: a trial of two slots or more at rate 0, in which the protocol
\* was handed the whole population, has returned
C5_Witness ==
    /\ net # NoNetwork
    /\ net.rate = 0
    /\ net.match_before
    /\ net.at = "returned"
    /\ net.slot >= 2

\* C7: in MultiThreadedNetwork.simulate, whatever the list of rates, no two
\* submitted trials run on the same Network, and so no trial ever works on
\* nodes or channels that another trial's reset built.
C7_EachTrialOwnsItsNetwork ==
    executor # NoExecutor =>
        /\ \A i, j \in 1..Len(executor.futures) :
              i # j => executor.futures[i].network # executor.futures[j].network
        /\ \A i \in 1..Len(executor.futures) : ~executor.futures[i].foreign

\* C11: under a mode its class does not know, execute of a
\* OneToOneStableMatching or of an OptimalSellingMechanism ends in an error:
\* it never returns a count and never makes a send attempt.
C11_UnknownModeFailsFast ==
    ~KnownMode =>
        /\ pc # "done"
        /\ exec.last = <<>>

C13_ChannelAssignedOnce ==
    (protocol.kind = "OptimalSelling" /\ KnownMode /\ pc # "call") =>
        /\ Len(loc.free_channels) + Len(loc.matching) = Len(channels)
        /\ \A j, k \in 1..Len(loc.matching) :
              j # k => loc.matching[j][2] # loc.matching[k][2]

\* C14: with at least one channel and a capacity of 1 or more, the proposal
\* loop of OneToManyStableMatching.stable_matching ends, and when it ends no
\* proposer is free: every node of the list is a partner of exactly one
\* channel.
C14_ProposalLoopTerminates ==
    (protocol.kind = "OneToMany" /\ channels # <<>>) ~>
        /\ pc = "returned"
        /\ loc.free_proposers = 0
        /\ \A n \in Range(nodes) :
              Cardinality({k \in 1..Len(matching) : matching[k][1] = n}) = 1

\* the larger of 0 and |proposers| - |receivers|
LeftOver == Max2(0, Len(proposers) - Len(receivers))

\* C15: in either proposer mode the proposal loop of
\* OneToOneStableMatching.stable_matching ends, with exactly
\* max(0, |proposers| - |receivers|) proposers free, and the returned pairs
\* are (node, channel) pairs in which every node and every channel appears at
\* most once, min(|nodes|, |channels|) of them.
C15_OneToOneTerminatesWithPairing ==
    (protocol.kind = "OneToOne" /\ KnownMode) ~>
        /\ pc = "returned"
        /\ loc.free_proposers = LeftOver
        /\ Cardinality({p \in Range(proposers) : loc.proposer_free[p]}) = LeftOver
        /\ \A k \in 1..Len(matching) :
              matching[k][1] \in Range(nodes) /\ matching[k][2] \in Range(channels)
        /\ \A j, k \in 1..Len(matching) :
              j # k => matching[j][1] # matching[k][1] /\ matching[j][2] # matching[k][2]
        /\ Len(matching) = IF Len(nodes) <= Len(channels) THEN Len(nodes) ELSE Len(channels)

\* C15's case: the call has returned with more proposers than receivers, one
\* proposer left free and a receiver holding another proposer than the first
\* of the list
C15_Witness ==
    /\ protocol.kind = "OneToOne"
    /\ KnownMode
    /\ pc = "returned"
    /\ Len(proposers) > Len(receivers)
    /\ Len(receivers) >= 1
    /\ loc.free_proposers = 1
    /\ \E r \in Range(receivers) : loc.receiver_partner[r] # proposers[1]

\* sending_slot has just called execute: nothing of the call has run yet
JustCalled ==
    /\ net # NoNetwork
    /\ net.at = "execute"
    /\ pc = "call"
    /\ exec = ExecStart

\* C16: execute is handed, by sending_slot, all the channels and, with
\* match_before off, exactly the nodes that have a message at that moment
\* (each once, in the order of the population), with match_before on, the
\* whole population.
C16_SendingSlotArguments ==
    JustCalled =>
        /\ channels = Upto(net.num_nodes)
        /\ net.match_before => nodes = Upto(net.num_nodes)
        /\ ~net.match_before =>
              /\ Range(nodes) = {n \in Population : has_message[n]}
              /\ \A j, k \in 1..Len(nodes) : j < k => nodes[j] < nodes[k]

\* C16's case: in a later slot of a trial, without match_before, execute is
\* called with the nodes that have a message, and there is one
C16_Witness ==
    /\ JustCalled
    /\ ~net.match_before
    /\ net.slot >= 1
    /\ nodes # <<>>

\* C18: the count execute keeps grows, at every step of a call, by the number
\* of nodes whose has_message goes from true to false in that step; no flag
\* goes from false to true and no flag of a node outside the passed list
\* changes: the integer returned is the number of flags cleared, at most the
\* number of passed nodes that had a message, and a node without a message
\* adds nothing.
C18_CountIsClearedFlags ==
    [][/\ exec'.success - exec.success =
             Cardinality({n \in NodeIds : has_message[n] /\ ~has_message'[n]})
       /\ \A n \in NodeIds : ~has_message[n] => ~has_message'[n]
       /\ \A n \in NodeIds : has_message'[n] # has_message[n] => n \in Range(nodes)]_vars

\* C18's case: execute has returned 1 for two passed nodes, and its last
\* send_data call was on a node without a message
C18_Witness ==
    /\ net = NoNetwork
    /\ pc = "done"
    /\ Len(nodes) = 2
    /\ exec.success = 1
    /\ exec.last # <<>>
    /\ ~exec.last.had_message

\* C19: a step of an execute call made by sending_slot leaves the Network
\* (its fields, so its node and channel lists), the lists the call was passed,
\* every energy and every gain as they are, and changes has_message only on a
\* passed node and only from true to false.
C19_ExecuteFrame ==
    [][(net # NoNetwork /\ net.at = "execute" /\ net'.at = "execute") =>
          /\ net' = net
          /\ nodes' = nodes
          /\ channels' = channels
          /\ energy' = energy
          /\ gains' = gains
          /\ \A n \in NodeIds :
                has_message'[n] # has_message[n] =>
                    n \in Range(nodes) /\ has_message[n]]_vars

\* C19's case: an execute call of OptimalSellingMechanism made by
\* sending_slot has popped its waiting nodes, sent and returned a success
C19_Witness ==
    /\ net # NoNetwork
    /\ net.at = "execute"
    /\ protocol.kind = "OptimalSelling"
    /\ pc = "done"
    /\ nodes # <<>>
    /\ loc.waiting_nodes # nodes
    /\ exec.success >= 1

\* C17: every trial MultiThreadedNetwork.simulate submits runs on a Network
\* of the configuration (population, per-user, match-before, keep-alive) of
\* the Network simulate was called on.
C17_TrialNetworkHasCallerConfiguration ==
    executor # NoExecutor =>
        \A i \in 1..Len(executor.futures) :
            executor.networks[executor.futures[i].network].configuration = executor.self

\* the nodes a channel is paired with in the returned list
Partners(c) == {matching[k][1] : k \in {j \in 1..Len(matching) : matching[j][2] = c}}

\* node p, not paired with channel r, prefers r (lower gain) to its channel,
\* and r has room left or holds a node of lower energy than p
ManyBlockingPair(p, r) ==
    /\ MatchedChannel(p) # r
    /\ \/ MatchedChannel(p) = None
       \/ gains[r][p] < gains[MatchedChannel(p)][p]
    /\ \/ Cardinality(Partners(r)) < protocol.max_matches_per_receiver
       \/ \E w \in Partners(r) : energy[p] > energy[w]

\* C20: under strict preferences, what
\* OneToManyStableMatching.stable_matching returns has no node p and channel
\* r such that p prefers r to its own channel and r has spare capacity or
\* prefers p to its worst partner.
C20_CapacitatedStable ==
    (pc = "returned" /\ protocol.kind = "OneToMany" /\ StrictPreferences) =>
        \A p \in Range(nodes), r \in Range(channels) : ~ManyBlockingPair(p, r)

\* C20's case: with capacity 1 and strict preferences two nodes rank the same
\* channel first, the one of lower energy proposes first, and the call has
\* returned
C20_Witness ==
    /\ pc = "returned"
    /\ protocol.kind = "OneToMany"
    /\ protocol.max_matches_per_receiver = 1
    /\ StrictPreferences
    /\ Len(nodes) = 2
    /\ Len(channels) = 2
    /\ energy[nodes[1]] < energy[nodes[2]]
    /\ Head(many_proposer_preferences(nodes[1])) = Head(many_proposer_preferences(nodes[2]))

=============================================================================
